---- MODULE Spec2Model ----
(***************************************************************************)
(* Model of scripts/extract-routers.py: the structural block extractor.    *)
(*                                                                         *)
(* A character is its Unicode code point, as ord() gives it; a line of     *)
(* text is a sequence of characters and a file is a sequence of lines.     *)
(* Indices of lines are 0-based as in the source, so line i of ls is       *)
(* ls[i + 1].                                                              *)
(*                                                                         *)
(* Two specifications are given.  ExtractSpec runs extract_router_block    *)
(* (and with it find_router_end) on arbitrary arguments, one loop          *)
(* iteration per step.  Spec runs main(): the locator loop, then the       *)
(* reporter loops over the group table.                                    *)
(***************************************************************************)
EXTENDS Integers, Sequences, FiniteSets, TLC

VARIABLES
    lines,          \* ExtractSpec: the argument `lines`; Spec: f.readlines()
    pc,             \* position in the program
    start_idx,      \* argument of extract_router_block / find_router_end
    i,              \* find_router_end: loop variable of the outer for
    brace_count,    \* find_router_end local
    paren_count,    \* find_router_end local
    started,        \* find_router_end local
    end_idx,        \* extract_router_block local: value find_router_end returned
    comment_start,  \* extract_router_block local
    block_lines,    \* extract_router_block local
    routers,        \* main: dict name -> line index
    loc_i,          \* main: loop variable of the enumerate(lines) loop
    gi,             \* main: position in groups.items() (1-based)
    mi,             \* main: position in router_names (1-based)
    total_lines,    \* main local
    out             \* main: what has been printed, one record per print call

vars == <<lines, pc, start_idx, i, brace_count, paren_count, started, end_idx,
          comment_start, block_lines, routers, loc_i, gi, mi, total_lines, out>>

extractVars == <<start_idx, i, brace_count, paren_count, started, end_idx,
                 comment_start, block_lines>>

mainVars == <<routers, loc_i, gi, mi, total_lines, out>>

----------------------------------------------------------------------------
(* Bounds of the model. *)

\* ExtractSpec: the longest argument `lines`.
MaxLines == 3

\* Spec: the longest input file, in lines.
MaxFileLines == 3

----------------------------------------------------------------------------
(* Characters and strings. *)

\* A dict with no keys.
EmptyDict == [k \in {} |-> 0]

\* A variant of DictSet that keeps the value of a key already there.
DictSet_KeepFirst(d, k, v) ==
    [x \in (DOMAIN d) \cup {k} |-> IF x \in DOMAIN d THEN d[x] ELSE v]

\* d[k] = v on a dict.
DictSet(d, k, v) == [x \in (DOMAIN d) \cup {k} |-> IF x = k THEN v ELSE d[x]]

\* Line i (0-based) of ls: the source's ls[i].
Line(ls, idx) == ls[idx + 1]

\* The characters the program tells from the others.
Newline == 10

Space == 32

LParen == 40

RParen == 41

Slash == 47

Colon == 58

LBrace == 123

RBrace == 125

\* The characters str.strip() with no argument removes: those of which
\* str.isspace() is true.
Whitespace ==
    (9..13) \cup (28..32) \cup {133, 160, 5760} \cup (8192..8202)
        \cup {8232, 8233, 8239, 8287, 12288}

\* The characters above 127 the class \w of a str pattern matches (the pattern
\* is compiled without re.ASCII): the alphanumeric characters of Unicode 14.0,
\* as ranges <<first, last>>.
WordRanges ==
    { <<170, 170>>, <<178, 179>>, <<181, 181>>, <<185, 186>>,
      <<188, 190>>, <<192, 214>>, <<216, 246>>, <<248, 705>>,
      <<710, 721>>, <<736, 740>>, <<748, 748>>, <<750, 750>>,
      <<880, 884>>, <<886, 887>>, <<890, 893>>, <<895, 895>>,
      <<902, 902>>, <<904, 906>>, <<908, 908>>, <<910, 929>>,
      <<931, 1013>>, <<1015, 1153>>, <<1162, 1327>>, <<1329, 1366>>,
      <<1369, 1369>>, <<1376, 1416>>, <<1488, 1514>>, <<1519, 1522>>,
      <<1568, 1610>>, <<1632, 1641>>, <<1646, 1647>>, <<1649, 1747>>,
      <<1749, 1749>>, <<1765, 1766>>, <<1774, 1788>>, <<1791, 1791>>,
      <<1808, 1808>>, <<1810, 1839>>, <<1869, 1957>>, <<1969, 1969>>,
      <<1984, 2026>>, <<2036, 2037>>, <<2042, 2042>>, <<2048, 2069>>,
      <<2074, 2074>>, <<2084, 2084>>, <<2088, 2088>>, <<2112, 2136>>,
      <<2144, 2154>>, <<2160, 2183>>, <<2185, 2190>>, <<2208, 2249>>,
      <<2308, 2361>>, <<2365, 2365>>, <<2384, 2384>>, <<2392, 2401>>,
      <<2406, 2415>>, <<2417, 2432>>, <<2437, 2444>>, <<2447, 2448>>,
      <<2451, 2472>>, <<2474, 2480>>, <<2482, 2482>>, <<2486, 2489>>,
      <<2493, 2493>>, <<2510, 2510>>, <<2524, 2525>>, <<2527, 2529>>,
      <<2534, 2545>>, <<2548, 2553>>, <<2556, 2556>>, <<2565, 2570>>,
      <<2575, 2576>>, <<2579, 2600>>, <<2602, 2608>>, <<2610, 2611>>,
      <<2613, 2614>>, <<2616, 2617>>, <<2649, 2652>>, <<2654, 2654>>,
      <<2662, 2671>>, <<2674, 2676>>, <<2693, 2701>>, <<2703, 2705>>,
      <<2707, 2728>>, <<2730, 2736>>, <<2738, 2739>>, <<2741, 2745>>,
      <<2749, 2749>>, <<2768, 2768>>, <<2784, 2785>>, <<2790, 2799>>,
      <<2809, 2809>>, <<2821, 2828>>, <<2831, 2832>>, <<2835, 2856>>,
      <<2858, 2864>>, <<2866, 2867>>, <<2869, 2873>>, <<2877, 2877>>,
      <<2908, 2909>>, <<2911, 2913>>, <<2918, 2927>>, <<2929, 2935>>,
      <<2947, 2947>>, <<2949, 2954>>, <<2958, 2960>>, <<2962, 2965>>,
      <<2969, 2970>>, <<2972, 2972>>, <<2974, 2975>>, <<2979, 2980>>,
      <<2984, 2986>>, <<2990, 3001>>, <<3024, 3024>>, <<3046, 3058>>,
      <<3077, 3084>>, <<3086, 3088>>, <<3090, 3112>>, <<3114, 3129>>,
      <<3133, 3133>>, <<3160, 3162>>, <<3165, 3165>>, <<3168, 3169>>,
      <<3174, 3183>>, <<3192, 3198>>, <<3200, 3200>>, <<3205, 3212>>,
      <<3214, 3216>>, <<3218, 3240>>, <<3242, 3251>>, <<3253, 3257>>,
      <<3261, 3261>>, <<3293, 3294>>, <<3296, 3297>>, <<3302, 3311>>,
      <<3313, 3314>>, <<3332, 3340>>, <<3342, 3344>>, <<3346, 3386>>,
      <<3389, 3389>>, <<3406, 3406>>, <<3412, 3414>>, <<3416, 3425>>,
      <<3430, 3448>>, <<3450, 3455>>, <<3461, 3478>>, <<3482, 3505>>,
      <<3507, 3515>>, <<3517, 3517>>, <<3520, 3526>>, <<3558, 3567>>,
      <<3585, 3632>>, <<3634, 3635>>, <<3648, 3654>>, <<3664, 3673>>,
      <<3713, 3714>>, <<3716, 3716>>, <<3718, 3722>>, <<3724, 3747>>,
      <<3749, 3749>>, <<3751, 3760>>, <<3762, 3763>>, <<3773, 3773>>,
      <<3776, 3780>>, <<3782, 3782>>, <<3792, 3801>>, <<3804, 3807>>,
      <<3840, 3840>>, <<3872, 3891>>, <<3904, 3911>>, <<3913, 3948>>,
      <<3976, 3980>>, <<4096, 4138>>, <<4159, 4169>>, <<4176, 4181>>,
      <<4186, 4189>>, <<4193, 4193>>, <<4197, 4198>>, <<4206, 4208>>,
      <<4213, 4225>>, <<4238, 4238>>, <<4240, 4249>>, <<4256, 4293>>,
      <<4295, 4295>>, <<4301, 4301>>, <<4304, 4346>>, <<4348, 4680>>,
      <<4682, 4685>>, <<4688, 4694>>, <<4696, 4696>>, <<4698, 4701>>,
      <<4704, 4744>>, <<4746, 4749>>, <<4752, 4784>>, <<4786, 4789>>,
      <<4792, 4798>>, <<4800, 4800>>, <<4802, 4805>>, <<4808, 4822>>,
      <<4824, 4880>>, <<4882, 4885>>, <<4888, 4954>>, <<4969, 4988>>,
      <<4992, 5007>>, <<5024, 5109>>, <<5112, 5117>>, <<5121, 5740>>,
      <<5743, 5759>>, <<5761, 5786>>, <<5792, 5866>>, <<5870, 5880>>,
      <<5888, 5905>>, <<5919, 5937>>, <<5952, 5969>>, <<5984, 5996>>,
      <<5998, 6000>>, <<6016, 6067>>, <<6103, 6103>>, <<6108, 6108>>,
      <<6112, 6121>>, <<6128, 6137>>, <<6160, 6169>>, <<6176, 6264>>,
      <<6272, 6276>>, <<6279, 6312>>, <<6314, 6314>>, <<6320, 6389>>,
      <<6400, 6430>>, <<6470, 6509>>, <<6512, 6516>>, <<6528, 6571>>,
      <<6576, 6601>>, <<6608, 6618>>, <<6656, 6678>>, <<6688, 6740>>,
      <<6784, 6793>>, <<6800, 6809>>, <<6823, 6823>>, <<6917, 6963>>,
      <<6981, 6988>>, <<6992, 7001>>, <<7043, 7072>>, <<7086, 7141>>,
      <<7168, 7203>>, <<7232, 7241>>, <<7245, 7293>>, <<7296, 7304>>,
      <<7312, 7354>>, <<7357, 7359>>, <<7401, 7404>>, <<7406, 7411>>,
      <<7413, 7414>>, <<7418, 7418>>, <<7424, 7615>>, <<7680, 7957>>,
      <<7960, 7965>>, <<7968, 8005>>, <<8008, 8013>>, <<8016, 8023>>,
      <<8025, 8025>>, <<8027, 8027>>, <<8029, 8029>>, <<8031, 8061>>,
      <<8064, 8116>>, <<8118, 8124>>, <<8126, 8126>>, <<8130, 8132>>,
      <<8134, 8140>>, <<8144, 8147>>, <<8150, 8155>>, <<8160, 8172>>,
      <<8178, 8180>>, <<8182, 8188>>, <<8304, 8305>>, <<8308, 8313>>,
      <<8319, 8329>>, <<8336, 8348>>, <<8450, 8450>>, <<8455, 8455>>,
      <<8458, 8467>>, <<8469, 8469>>, <<8473, 8477>>, <<8484, 8484>>,
      <<8486, 8486>>, <<8488, 8488>>, <<8490, 8493>>, <<8495, 8505>>,
      <<8508, 8511>>, <<8517, 8521>>, <<8526, 8526>>, <<8528, 8585>>,
      <<9312, 9371>>, <<9450, 9471>>, <<10102, 10131>>, <<11264, 11492>>,
      <<11499, 11502>>, <<11506, 11507>>, <<11517, 11517>>, <<11520, 11557>>,
      <<11559, 11559>>, <<11565, 11565>>, <<11568, 11623>>, <<11631, 11631>>,
      <<11648, 11670>>, <<11680, 11686>>, <<11688, 11694>>, <<11696, 11702>>,
      <<11704, 11710>>, <<11712, 11718>>, <<11720, 11726>>, <<11728, 11734>>,
      <<11736, 11742>>, <<11823, 11823>>, <<12293, 12295>>, <<12321, 12329>>,
      <<12337, 12341>>, <<12344, 12348>>, <<12353, 12438>>, <<12445, 12447>>,
      <<12449, 12538>>, <<12540, 12543>>, <<12549, 12591>>, <<12593, 12686>>,
      <<12690, 12693>>, <<12704, 12735>>, <<12784, 12799>>, <<12832, 12841>>,
      <<12872, 12879>>, <<12881, 12895>>, <<12928, 12937>>, <<12977, 12991>>,
      <<13312, 19903>>, <<19968, 42124>>, <<42192, 42237>>, <<42240, 42508>>,
      <<42512, 42539>>, <<42560, 42606>>, <<42623, 42653>>, <<42656, 42735>>,
      <<42775, 42783>>, <<42786, 42888>>, <<42891, 42954>>, <<42960, 42961>>,
      <<42963, 42963>>, <<42965, 42969>>, <<42994, 43009>>, <<43011, 43013>>,
      <<43015, 43018>>, <<43020, 43042>>, <<43056, 43061>>, <<43072, 43123>>,
      <<43138, 43187>>, <<43216, 43225>>, <<43250, 43255>>, <<43259, 43259>>,
      <<43261, 43262>>, <<43264, 43301>>, <<43312, 43334>>, <<43360, 43388>>,
      <<43396, 43442>>, <<43471, 43481>>, <<43488, 43492>>, <<43494, 43518>>,
      <<43520, 43560>>, <<43584, 43586>>, <<43588, 43595>>, <<43600, 43609>>,
      <<43616, 43638>>, <<43642, 43642>>, <<43646, 43695>>, <<43697, 43697>>,
      <<43701, 43702>>, <<43705, 43709>>, <<43712, 43712>>, <<43714, 43714>>,
      <<43739, 43741>>, <<43744, 43754>>, <<43762, 43764>>, <<43777, 43782>>,
      <<43785, 43790>>, <<43793, 43798>>, <<43808, 43814>>, <<43816, 43822>>,
      <<43824, 43866>>, <<43868, 43881>>, <<43888, 44002>>, <<44016, 44025>>,
      <<44032, 55203>>, <<55216, 55238>>, <<55243, 55291>>, <<63744, 64109>>,
      <<64112, 64217>>, <<64256, 64262>>, <<64275, 64279>>, <<64285, 64285>>,
      <<64287, 64296>>, <<64298, 64310>>, <<64312, 64316>>, <<64318, 64318>>,
      <<64320, 64321>>, <<64323, 64324>>, <<64326, 64433>>, <<64467, 64829>>,
      <<64848, 64911>>, <<64914, 64967>>, <<65008, 65019>>, <<65136, 65140>>,
      <<65142, 65276>>, <<65296, 65305>>, <<65313, 65338>>, <<65345, 65370>>,
      <<65382, 65470>>, <<65474, 65479>>, <<65482, 65487>>, <<65490, 65495>>,
      <<65498, 65500>>, <<65536, 65547>>, <<65549, 65574>>, <<65576, 65594>>,
      <<65596, 65597>>, <<65599, 65613>>, <<65616, 65629>>, <<65664, 65786>>,
      <<65799, 65843>>, <<65856, 65912>>, <<65930, 65931>>, <<66176, 66204>>,
      <<66208, 66256>>, <<66273, 66299>>, <<66304, 66339>>, <<66349, 66378>>,
      <<66384, 66421>>, <<66432, 66461>>, <<66464, 66499>>, <<66504, 66511>>,
      <<66513, 66517>>, <<66560, 66717>>, <<66720, 66729>>, <<66736, 66771>>,
      <<66776, 66811>>, <<66816, 66855>>, <<66864, 66915>>, <<66928, 66938>>,
      <<66940, 66954>>, <<66956, 66962>>, <<66964, 66965>>, <<66967, 66977>>,
      <<66979, 66993>>, <<66995, 67001>>, <<67003, 67004>>, <<67072, 67382>>,
      <<67392, 67413>>, <<67424, 67431>>, <<67456, 67461>>, <<67463, 67504>>,
      <<67506, 67514>>, <<67584, 67589>>, <<67592, 67592>>, <<67594, 67637>>,
      <<67639, 67640>>, <<67644, 67644>>, <<67647, 67669>>, <<67672, 67702>>,
      <<67705, 67742>>, <<67751, 67759>>, <<67808, 67826>>, <<67828, 67829>>,
      <<67835, 67867>>, <<67872, 67897>>, <<67968, 68023>>, <<68028, 68047>>,
      <<68050, 68096>>, <<68112, 68115>>, <<68117, 68119>>, <<68121, 68149>>,
      <<68160, 68168>>, <<68192, 68222>>, <<68224, 68255>>, <<68288, 68295>>,
      <<68297, 68324>>, <<68331, 68335>>, <<68352, 68405>>, <<68416, 68437>>,
      <<68440, 68466>>, <<68472, 68497>>, <<68521, 68527>>, <<68608, 68680>>,
      <<68736, 68786>>, <<68800, 68850>>, <<68858, 68899>>, <<68912, 68921>>,
      <<69216, 69246>>, <<69248, 69289>>, <<69296, 69297>>, <<69376, 69415>>,
      <<69424, 69445>>, <<69457, 69460>>, <<69488, 69505>>, <<69552, 69579>>,
      <<69600, 69622>>, <<69635, 69687>>, <<69714, 69743>>, <<69745, 69746>>,
      <<69749, 69749>>, <<69763, 69807>>, <<69840, 69864>>, <<69872, 69881>>,
      <<69891, 69926>>, <<69942, 69951>>, <<69956, 69956>>, <<69959, 69959>>,
      <<69968, 70002>>, <<70006, 70006>>, <<70019, 70066>>, <<70081, 70084>>,
      <<70096, 70106>>, <<70108, 70108>>, <<70113, 70132>>, <<70144, 70161>>,
      <<70163, 70187>>, <<70272, 70278>>, <<70280, 70280>>, <<70282, 70285>>,
      <<70287, 70301>>, <<70303, 70312>>, <<70320, 70366>>, <<70384, 70393>>,
      <<70405, 70412>>, <<70415, 70416>>, <<70419, 70440>>, <<70442, 70448>>,
      <<70450, 70451>>, <<70453, 70457>>, <<70461, 70461>>, <<70480, 70480>>,
      <<70493, 70497>>, <<70656, 70708>>, <<70727, 70730>>, <<70736, 70745>>,
      <<70751, 70753>>, <<70784, 70831>>, <<70852, 70853>>, <<70855, 70855>>,
      <<70864, 70873>>, <<71040, 71086>>, <<71128, 71131>>, <<71168, 71215>>,
      <<71236, 71236>>, <<71248, 71257>>, <<71296, 71338>>, <<71352, 71352>>,
      <<71360, 71369>>, <<71424, 71450>>, <<71472, 71483>>, <<71488, 71494>>,
      <<71680, 71723>>, <<71840, 71922>>, <<71935, 71942>>, <<71945, 71945>>,
      <<71948, 71955>>, <<71957, 71958>>, <<71960, 71983>>, <<71999, 71999>>,
      <<72001, 72001>>, <<72016, 72025>>, <<72096, 72103>>, <<72106, 72144>>,
      <<72161, 72161>>, <<72163, 72163>>, <<72192, 72192>>, <<72203, 72242>>,
      <<72250, 72250>>, <<72272, 72272>>, <<72284, 72329>>, <<72349, 72349>>,
      <<72368, 72440>>, <<72704, 72712>>, <<72714, 72750>>, <<72768, 72768>>,
      <<72784, 72812>>, <<72818, 72847>>, <<72960, 72966>>, <<72968, 72969>>,
      <<72971, 73008>>, <<73030, 73030>>, <<73040, 73049>>, <<73056, 73061>>,
      <<73063, 73064>>, <<73066, 73097>>, <<73112, 73112>>, <<73120, 73129>>,
      <<73440, 73458>>, <<73648, 73648>>, <<73664, 73684>>, <<73728, 74649>>,
      <<74752, 74862>>, <<74880, 75075>>, <<77712, 77808>>, <<77824, 78894>>,
      <<82944, 83526>>, <<92160, 92728>>, <<92736, 92766>>, <<92768, 92777>>,
      <<92784, 92862>>, <<92864, 92873>>, <<92880, 92909>>, <<92928, 92975>>,
      <<92992, 92995>>, <<93008, 93017>>, <<93019, 93025>>, <<93027, 93047>>,
      <<93053, 93071>>, <<93760, 93846>>, <<93952, 94026>>, <<94032, 94032>>,
      <<94099, 94111>>, <<94176, 94177>>, <<94179, 94179>>, <<94208, 100343>>,
      <<100352, 101589>>, <<101632, 101640>>, <<110576, 110579>>, <<110581, 110587>>,
      <<110589, 110590>>, <<110592, 110882>>, <<110928, 110930>>, <<110948, 110951>>,
      <<110960, 111355>>, <<113664, 113770>>, <<113776, 113788>>, <<113792, 113800>>,
      <<113808, 113817>>, <<119520, 119539>>, <<119648, 119672>>, <<119808, 119892>>,
      <<119894, 119964>>, <<119966, 119967>>, <<119970, 119970>>, <<119973, 119974>>,
      <<119977, 119980>>, <<119982, 119993>>, <<119995, 119995>>, <<119997, 120003>>,
      <<120005, 120069>>, <<120071, 120074>>, <<120077, 120084>>, <<120086, 120092>>,
      <<120094, 120121>>, <<120123, 120126>>, <<120128, 120132>>, <<120134, 120134>>,
      <<120138, 120144>>, <<120146, 120485>>, <<120488, 120512>>, <<120514, 120538>>,
      <<120540, 120570>>, <<120572, 120596>>, <<120598, 120628>>, <<120630, 120654>>,
      <<120656, 120686>>, <<120688, 120712>>, <<120714, 120744>>, <<120746, 120770>>,
      <<120772, 120779>>, <<120782, 120831>>, <<122624, 122654>>, <<123136, 123180>>,
      <<123191, 123197>>, <<123200, 123209>>, <<123214, 123214>>, <<123536, 123565>>,
      <<123584, 123627>>, <<123632, 123641>>, <<124896, 124902>>, <<124904, 124907>>,
      <<124909, 124910>>, <<124912, 124926>>, <<124928, 125124>>, <<125127, 125135>>,
      <<125184, 125251>>, <<125259, 125259>>, <<125264, 125273>>, <<126065, 126123>>,
      <<126125, 126127>>, <<126129, 126132>>, <<126209, 126253>>, <<126255, 126269>>,
      <<126464, 126467>>, <<126469, 126495>>, <<126497, 126498>>, <<126500, 126500>>,
      <<126503, 126503>>, <<126505, 126514>>, <<126516, 126519>>, <<126521, 126521>>,
      <<126523, 126523>>, <<126530, 126530>>, <<126535, 126535>>, <<126537, 126537>>,
      <<126539, 126539>>, <<126541, 126543>>, <<126545, 126546>>, <<126548, 126548>>,
      <<126551, 126551>>, <<126553, 126553>>, <<126555, 126555>>, <<126557, 126557>>,
      <<126559, 126559>>, <<126561, 126562>>, <<126564, 126564>>, <<126567, 126570>>,
      <<126572, 126578>>, <<126580, 126583>>, <<126585, 126588>>, <<126590, 126590>>,
      <<126592, 126601>>, <<126603, 126619>>, <<126625, 126627>>, <<126629, 126633>>,
      <<126635, 126651>>, <<127232, 127244>>, <<130032, 130041>>, <<131072, 173791>>,
      <<173824, 177976>>, <<177984, 178205>>, <<178208, 183969>>, <<183984, 191456>>,
      <<194560, 195101>>, <<196608, 201546>> }

\* Whether the class \w matches the character c.
IsWordChar(c) ==
    IF c < 128
    THEN \/ 48 <= c /\ c <= 57      \* 0-9
         \/ 65 <= c /\ c <= 90      \* A-Z
         \/ c = 95                  \* _
         \/ 97 <= c /\ c <= 122     \* a-z
    ELSE \E r \in WordRanges : r[1] <= c /\ c <= r[2]

\* s.rstrip('\n'): s without its trailing newline characters.
RECURSIVE RStripNewline(_)
RStripNewline(s) ==
    IF Len(s) > 0 /\ s[Len(s)] = Newline
    THEN RStripNewline(SubSeq(s, 1, Len(s) - 1))
    ELSE s

\* s.lstrip(): s without its leading whitespace.
RECURSIVE LStrip(_)
LStrip(s) ==
    IF Len(s) > 0 /\ s[1] \in Whitespace THEN LStrip(Tail(s)) ELSE s

\* s.rstrip(): s without its trailing whitespace.
RECURSIVE RStrip(_)
RStrip(s) ==
    IF Len(s) > 0 /\ s[Len(s)] \in Whitespace
    THEN RStrip(SubSeq(s, 1, Len(s) - 1))
    ELSE s

\* s.strip()
Strip(s) == RStrip(LStrip(s))

\* s.startswith(prefix)
StartsWith(s, prefix) ==
    Len(s) >= Len(prefix) /\ SubSeq(s, 1, Len(prefix)) = prefix

\* A variant of IsCommentLine that does not trim the line.
IsCommentLine_NoStrip(line) == StartsWith(line, <<Slash, Slash>>)

\* The test of the while loop of extract_router_block, on one line.
IsCommentLine(line) == StartsWith(Strip(line), <<Slash, Slash>>)

----------------------------------------------------------------------------
(* find_router_end *)

\* The locals of find_router_end as it enters its loop.
ScanInit == [brace_count |-> 0, paren_count |-> 0, started |-> FALSE]

\* The body of the inner loop: one character.
ScanChar(st, ch) ==
    IF ch = LBrace
    THEN [st EXCEPT !.brace_count = @ + 1, !.started = TRUE]
    ELSE IF ch = RBrace
    THEN [st EXCEPT !.brace_count = @ - 1]
    ELSE IF ch = LParen
    THEN [st EXCEPT !.paren_count = @ + 1]
    ELSE IF ch = RParen
    THEN [st EXCEPT !.paren_count = @ - 1]
    ELSE st

\* The inner loop `for ch in lines[i]`, from character k (1-based) on.
RECURSIVE ScanFrom(_, _, _)
ScanFrom(st, line, k) ==
    IF k > Len(line) THEN st ELSE ScanFrom(ScanChar(st, line[k]), line, k + 1)

\* A variant of ScanLineChars that counts the braces of each line on their own.
ScanLineChars_PerLine(st, line) == ScanFrom([st EXCEPT !.brace_count = 0], line, 1)

ScanLineChars(st, line) == ScanFrom(st, line, 1)

\* A variant of ShouldReturn that leaves the started flag out.
ShouldReturn_NoStarted(st) == st.brace_count = 0

\* A variant of ShouldReturn that also wants the parentheses closed.
ShouldReturn_ParenGated(st) ==
    st.started /\ st.brace_count = 0 /\ st.paren_count = 0

\* The test made after each line.
ShouldReturn(st) == st.started /\ st.brace_count = 0

\* A variant of RouterEndFrom that returns len(lines) when the loop is exhausted.
RECURSIVE RouterEndFrom_PastEnd(_, _, _)
RouterEndFrom_PastEnd(ls, idx, st) ==
    IF idx >= Len(ls)
    THEN Len(ls)
    ELSE LET st2 == ScanLineChars(st, Line(ls, idx))
         IN  IF ShouldReturn(st2) THEN idx
             ELSE RouterEndFrom_PastEnd(ls, idx + 1, st2)

\* The outer loop from line idx on, with the locals st.
RECURSIVE RouterEndFrom(_, _, _)
RouterEndFrom(ls, idx, st) ==
    IF idx >= Len(ls)
    THEN Len(ls) - 1
    ELSE LET st2 == ScanLineChars(st, Line(ls, idx))
         IN  IF ShouldReturn(st2) THEN idx ELSE RouterEndFrom(ls, idx + 1, st2)

find_router_end(ls, start) == RouterEndFrom(ls, start, ScanInit)

----------------------------------------------------------------------------
(* extract_router_block *)

\* The test of the while loop.
CommentAbove(ls, cs) == cs > 0 /\ IsCommentLine(Line(ls, cs - 1))

\* The while loop: the value of comment_start when it ends.
RECURSIVE CommentStartFrom(_, _)
CommentStartFrom(ls, cs) ==
    IF CommentAbove(ls, cs) THEN CommentStartFrom(ls, cs - 1) ELSE cs

\* The slice ls[lo : hi + 1] of a list, for 0 <= lo.
Slice(ls, lo, hi) == SubSeq(ls, lo + 1, IF hi + 1 > Len(ls) THEN Len(ls) ELSE hi + 1)

\* extract_router_block(lines, start_idx): <<block_lines, comment_start, end_idx>>.
extract_router_block(ls, start) ==
    LET e  == find_router_end(ls, start)
        cs == CommentStartFrom(ls, start)
    IN  <<Slice(ls, cs, e), cs, e>>

----------------------------------------------------------------------------
(* ExtractSpec: extract_router_block(lines, start_idx), step by step. *)

\* Lines the arguments are built from.
ArgPool ==
    { <<32, 32, 102, 111, 111, 58, 32, 114, 111, 117, 116, 101, 114, 40, 123>>,  \* '  foo: router({'
      <<32, 32, 97, 58, 32, 123, 49, 125>>,  \* '  a: {1}'
      <<125, 41, 44>>,  \* '}),'
      <<123>>,  \* '{'
      <<125>>,  \* '}'
      <<125, 123>>,  \* '}{'
      <<123, 125, 123>>,  \* '{}{'
      <<120, 40, 41>>,  \* 'x()'
      <<47, 47, 32, 110, 111, 116, 101>>,  \* '// note'
      <<32, 9, 11, 160, 47, 47, 32, 110>>,  \* ' \t\x0b\xa0// n'
      <<47, 32, 47>>,  \* '/ /'
      <<>> }  \* ''

ArgInputs == UNION { [1..n -> ArgPool] : n \in 1..MaxLines }

\* extract_router_block has been called and find_router_end has set its
\* locals.  start_idx is an index of lines: the one caller passes a value of
\* the dict routers.  The locals of main are not used.
ExtractInit ==
    /\ lines \in ArgInputs
    /\ start_idx \in 0..(Len(lines) - 1)
    /\ pc = "scan"
    /\ i = start_idx
    /\ brace_count = 0
    /\ paren_count = 0
    /\ started = FALSE
    /\ end_idx = -1
    /\ comment_start = -1
    /\ block_lines = <<>>
    /\ routers = EmptyDict
    /\ loc_i = 0
    /\ gi = 0
    /\ mi = 0
    /\ total_lines = 0
    /\ out = <<>>

\* Whether the test of find_router_end would succeed after some character of
\* line, from character k on, were it made after every character.
RECURSIVE ReturnsWithin(_, _, _)
ReturnsWithin(st, line, k) ==
    /\ k <= Len(line)
    /\ LET st2 == ScanChar(st, line[k])
       IN  ShouldReturn(st2) \/ ReturnsWithin(st2, line, k + 1)

\* A variant of ScanLine that makes the test after every character.
ScanLine_CharLevel ==
    /\ pc = "scan"
    /\ i < Len(lines)
    /\ LET st0 == [brace_count |-> brace_count, paren_count |-> paren_count,
                   started |-> started]
           st  == ScanLineChars(st0, Line(lines, i))
       IN  /\ brace_count' = st.brace_count
           /\ paren_count' = st.paren_count
           /\ started' = st.started
           /\ IF ReturnsWithin(st0, Line(lines, i), 1)
              THEN /\ pc' = "returned_i"
                   /\ end_idx' = i
                   /\ i' = i
              ELSE /\ pc' = "scan"
                   /\ end_idx' = end_idx
                   /\ i' = i + 1
    /\ UNCHANGED <<lines, start_idx, comment_start, block_lines, mainVars>>

\* One iteration of the outer loop of find_router_end: the characters of line i,
\* then the test; a return hands i to extract_router_block's end_idx.
ScanLine ==
    /\ pc = "scan"
    /\ i < Len(lines)
    /\ LET st == ScanLineChars([brace_count |-> brace_count,
                                paren_count |-> paren_count,
                                started |-> started], Line(lines, i))
       IN  /\ brace_count' = st.brace_count
           /\ paren_count' = st.paren_count
           /\ started' = st.started
           /\ IF ShouldReturn(st)
              THEN /\ pc' = "returned_i"
                   /\ end_idx' = i
                   /\ i' = i
              ELSE /\ pc' = "scan"
                   /\ end_idx' = end_idx
                   /\ i' = i + 1
    /\ UNCHANGED <<lines, start_idx, comment_start, block_lines, mainVars>>

\* A variant of ScanExhausted that returns len(lines).
ScanExhausted_PastEnd ==
    /\ pc = "scan"
    /\ i >= Len(lines)
    /\ pc' = "returned_last"
    /\ end_idx' = Len(lines)
    /\ UNCHANGED <<lines, start_idx, i, brace_count, paren_count, started,
                   comment_start, block_lines, mainVars>>

\* The loop is exhausted: return len(lines) - 1.
ScanExhausted ==
    /\ pc = "scan"
    /\ i >= Len(lines)
    /\ pc' = "returned_last"
    /\ end_idx' = Len(lines) - 1
    /\ UNCHANGED <<lines, start_idx, i, brace_count, paren_count, started,
                   comment_start, block_lines, mainVars>>

\* comment_start = start_idx
CommentInit ==
    /\ pc \in {"returned_i", "returned_last"}
    /\ comment_start' = start_idx
    /\ pc' = "attach"
    /\ UNCHANGED <<lines, start_idx, i, brace_count, paren_count, started,
                   end_idx, block_lines, mainVars>>

\* One iteration of the while loop.
CommentStep ==
    /\ pc = "attach"
    /\ CommentAbove(lines, comment_start)
    /\ comment_start' = comment_start - 1
    /\ UNCHANGED <<lines, pc, start_idx, i, brace_count, paren_count, started,
                   end_idx, block_lines, mainVars>>

\* The while loop ends: slice the block and return.
ExtractReturn ==
    /\ pc = "attach"
    /\ ~CommentAbove(lines, comment_start)
    /\ block_lines' = Slice(lines, comment_start, end_idx)
    /\ pc' = "extracted"
    /\ UNCHANGED <<lines, start_idx, i, brace_count, paren_count, started,
                   end_idx, comment_start, mainVars>>

ExtractNext ==
    \/ ScanLine
    \/ ScanExhausted
    \/ CommentInit
    \/ CommentStep
    \/ ExtractReturn

\* The program runs to its end: each step is taken when it can be.
ExtractFairSpec == ExtractInit /\ [][ExtractNext]_vars /\ WF_vars(ExtractNext)

ExtractSpec == ExtractInit /\ [][ExtractNext]_vars

----------------------------------------------------------------------------
(* What the properties are stated with: brace counts taken from the text,    *)
(* not from the scan.                                                        *)

\* The number of characters ch in the first p characters of line.
CountIn(line, p, ch) == Cardinality({ k \in 1..p : line[k] = ch })

\* The number of characters ch in the lines a..b (0-based, inclusive) of ls.
RECURSIVE CountLines(_, _, _, _)
CountLines(ls, a, b, ch) ==
    IF a > b THEN 0
    ELSE CountIn(Line(ls, b), Len(Line(ls, b)), ch) + CountLines(ls, a, b - 1, ch)

\* '{' minus '}' over the lines a..b.
NetBraces(ls, a, b) == CountLines(ls, a, b, LBrace) - CountLines(ls, a, b, RBrace)

\* The brace depth after the first p characters of line j, counted from the
\* beginning of line a.
DepthAt(ls, a, j, p) ==
    NetBraces(ls, a, j - 1)
        + CountIn(Line(ls, j), p, LBrace) - CountIn(Line(ls, j), p, RBrace)

\* The character positions <<j, p>> of the lines a..b.
Positions(ls, a, b) ==
    UNION { { <<j, p>> : p \in 1..Len(Line(ls, j)) } : j \in a..b }

\* Position x comes before position y.
Before(x, y) == x[1] < y[1] \/ (x[1] = y[1] /\ x[2] < y[2])

\* The depth, counted from line a, has been positive at or before position x.
PositiveBy(ls, a, x) ==
    \E y \in Positions(ls, a, x[1]) :
        (y = x \/ Before(y, x)) /\ DepthAt(ls, a, y[1], y[2]) > 0

\* The lines on which, at some character, the depth counted from line a is
\* zero after having been positive.
CharZeroLines(ls, a) ==
    { j \in a..(Len(ls) - 1) :
        \E p \in 1..Len(Line(ls, j)) :
            DepthAt(ls, a, j, p) = 0 /\ PositiveBy(ls, a, <<j, p>>) }

\* The lines at whose end the depth counted from line a is zero and a '{'
\* has been met.
ClosedEnds(ls, a) ==
    { j \in a..(Len(ls) - 1) :
        CountLines(ls, a, j, LBrace) > 0 /\ NetBraces(ls, a, j) = 0 }

Min(S) == CHOOSE x \in S : \A y \in S : x <= y

Returned == pc \in {"returned_i", "returned_last"}

\* The last line find_router_end has been through (start_idx - 1: none yet).
ScannedThrough ==
    IF pc = "scan" THEN i - 1
    ELSE IF i < Len(lines) THEN i ELSE Len(lines) - 1

\* The braces of a line are pairs opened and closed within the line.
InnerBalanced(line) ==
    /\ CountIn(line, Len(line), LBrace) = CountIn(line, Len(line), RBrace)
    /\ \A p \in 1..Len(line) : CountIn(line, p, LBrace) >= CountIn(line, p, RBrace)

\* Whitespace, then "//": a line that is a comment once trimmed.
CommentText(line) ==
    \E k \in 1..(Len(line) - 1) :
        /\ line[k] = Slash
        /\ line[k + 1] = Slash
        /\ \A j \in 1..(k - 1) : line[j] \in Whitespace

\* ls with every '(' and ')' taken out.
NoParens(ls) ==
    [k \in 1..Len(ls) |-> SelectSeq(ls[k], LAMBDA c : c \notin {LParen, RParen})]

\* ls with every '(' turned into ')' and every ')' into '('.
SwapParens(ls) ==
    [k \in 1..Len(ls) |->
        [p \in 1..Len(ls[k]) |->
            IF ls[k][p] = LParen THEN RParen
            ELSE IF ls[k][p] = RParen THEN LParen ELSE ls[k][p]]]

----------------------------------------------------------------------------
(* Properties of find_router_end and extract_router_block (ExtractSpec). *)

\* The depth, counted from line a, is not negative at any character of the
\* lines a..b.
NeverNegative(ls, a, b) ==
    \A y \in Positions(ls, a, b) : DepthAt(ls, a, y[1], y[2]) >= 0

\* C2, as stated, for scans whose depth is never negative: find_router_end
\* returns the line that holds the first character at which the depth is back
\* to zero after having been positive, also when that line goes on with
\* another '{'.
C2_ReturnsFirstCharZeroLine ==
    ( /\ Returned
      /\ CharZeroLines(lines, start_idx) # {}
      /\ NeverNegative(lines, start_idx, Min(CharZeroLines(lines, start_idx))) )
        => end_idx = Min(CharZeroLines(lines, start_idx))

\* C2, amended: find_router_end returns the first line, from start on, at whose
\* end the depth is zero and a '{' has been met since the beginning of line
\* start; the test is made at the end of a line, not after each character.
C2_ReturnsFirstClosedLineEnd ==
    (Returned /\ ClosedEnds(lines, start_idx) # {})
        => (pc = "returned_i" /\ end_idx = Min(ClosedEnds(lines, start_idx)))

\* The depth is zero in the middle of line start, which goes on with a '{';
\* the scan went past it and returned a later line.
C2_Witness ==
    /\ pc = "returned_i"
    /\ start_idx \in CharZeroLines(lines, start_idx)
    /\ start_idx \notin ClosedEnds(lines, start_idx)
    /\ end_idx > start_idx

\* C3, as stated: find_router_end returns through its test only when the depth
\* has been positive at some character scanned before.
C3_ReturnOnlyAfterPositive ==
    pc = "returned_i"
        => PositiveBy(lines, start_idx, <<end_idx, Len(Line(lines, end_idx))>>)

\* C3, amended: started is true exactly when a '{' has been scanned, and
\* find_router_end returns through its test only at the end of a line by which
\* a '{' has been scanned and the depth is zero; the depth need not have been
\* positive.
C3_ReturnOnlyAfterOpenBrace ==
    /\ started <=> CountLines(lines, start_idx, ScannedThrough, LBrace) > 0
    /\ pc = "returned_i" =>
           /\ started
           /\ CountLines(lines, start_idx, end_idx, LBrace) > 0
           /\ NetBraces(lines, start_idx, end_idx) = 0

\* The scan met '}' then '{' on line start, the depth was never positive, and
\* find_router_end returned that line through its test.
C3_Witness ==
    /\ pc = "returned_i"
    /\ end_idx = start_idx
    /\ ~PositiveBy(lines, start_idx, <<end_idx, Len(Line(lines, end_idx))>>)

\* C4: when line start leaves the depth positive and the lines after it, up to
\* the line c that brings the depth back to zero, hold only pairs opened and
\* closed within the line, find_router_end returns c; on the three lines of
\* the example it returns 2.
C4_InnerPairsDoNotEndTheBlock ==
    Returned =>
        /\ \A c \in (start_idx + 1)..(Len(lines) - 1) :
               ( /\ NetBraces(lines, start_idx, start_idx) > 0
                 /\ \A j \in (start_idx + 1)..(c - 1) : InnerBalanced(Line(lines, j))
                 /\ NetBraces(lines, start_idx, c) = 0 )
               => end_idx = c
        /\ (lines = << <<32, 32, 102, 111, 111, 58, 32, 114, 111, 117, 116, 101, 114, 40, 123>>, <<32, 32, 97, 58, 32, 123, 49, 125>>, <<125, 41, 44>> >> /\ start_idx = 0)  \* '  foo: router({', '  a: {1}', '}),'
               => end_idx = 2

\* The example: the scan went over the inner pair of line 1 and returned 2.
C4_Witness ==
    /\ pc = "returned_i"
    /\ lines = << <<32, 32, 102, 111, 111, 58, 32, 114, 111, 117, 116, 101, 114, 40, 123>>, <<32, 32, 97, 58, 32, 123, 49, 125>>, <<125, 41, 44>> >>  \* '  foo: router({', '  a: {1}', '}),'
    /\ start_idx = 0
    /\ end_idx = 2

\* C5: when no line from start on ends with the depth at zero after a '{',
\* find_router_end returns len(lines) - 1; the scan goes forward one line at a
\* time, never past the end, and comes to an end.
C5_FallsBackToLastLine ==
    /\ [](/\ (Returned /\ ClosedEnds(lines, start_idx) = {})
                => (pc = "returned_last" /\ end_idx = Len(lines) - 1
                       /\ i = Len(lines))
          /\ pc = "scan" => (i >= start_idx /\ i <= Len(lines)))
    /\ [][pc = "scan" => (i' = i + 1 \/ (i' = i /\ pc' # "scan"))]_vars
    /\ <>Returned

\* The braces never close: the scan visited every line and fell back to the
\* last one.
C5_Witness ==
    /\ pc = "returned_last"
    /\ ClosedEnds(lines, start_idx) = {}
    /\ CountLines(lines, start_idx, Len(lines) - 1, LBrace) > 0
    /\ start_idx < Len(lines) - 1
    /\ end_idx = Len(lines) - 1

\* C6: comment_start is the smallest s <= start_idx such that every line of
\* s..start_idx-1 is, once trimmed, a comment.
C6_CommentStartIsEarliest ==
    pc = "extracted" =>
        /\ comment_start \in 0..start_idx
        /\ \A j \in comment_start..(start_idx - 1) : CommentText(Line(lines, j))
        /\ comment_start > 0 => ~CommentText(Line(lines, comment_start - 1))

\* Two comment lines above the definition, one of them indented: both are
\* attached.
C6_Witness ==
    /\ pc = "extracted"
    /\ start_idx = 2
    /\ comment_start = 0
    /\ \E j \in 0..1 : Line(lines, j)[1] \in Whitespace

\* C10: the parentheses of the text have no part in the result: the text with
\* its parentheses taken out, or turned round, gives the same line.
C10_ParensDoNotMatter ==
    Returned =>
        /\ end_idx = find_router_end(NoParens(lines), start_idx)
        /\ end_idx = find_router_end(SwapParens(lines), start_idx)

\* find_router_end returned through its test with the parentheses unbalanced.
C10_Witness ==
    /\ pc = "returned_i"
    /\ paren_count # 0
    /\ NoParens(lines) # lines

----------------------------------------------------------------------------
(* main: the locator *)

\* The literal part of the pattern after the captured name: ": router\(\{".
PatternTail == <<58, 32, 114, 111, 117, 116, 101, 114, 40, 123>>  \* ': router({'

\* The number of consecutive \w characters of line from position k (1-based).
RECURSIVE WordRun(_, _)
WordRun(line, k) ==
    IF k <= Len(line) /\ IsWordChar(line[k]) THEN 1 + WordRun(line, k + 1) ELSE 0

\* pattern.match(line) for r'^  (\w+): router\(\{': the captured group 1,
\* or <<>> when the line does not match.  \w+ is greedy and the character
\* after it must be ':', which \w does not match, so the name is the whole
\* run of \w characters after the two spaces.
PatternMatch(line) ==
    IF StartsWith(line, <<Space, Space>>)
    THEN LET n == WordRun(line, 3)
         IN  IF n >= 1 /\ StartsWith(SubSeq(line, 3 + n, Len(line)), PatternTail)
             THEN SubSeq(line, 3, 2 + n)
             ELSE <<>>
    ELSE <<>>

\* [l.rstrip('\n') for l in lines]
StrippedLines(ls) == [k \in 1..Len(ls) |-> RStripNewline(ls[k])]

\* The table `groups`, in the order of groups.items().
groups ==
    << [name |-> "analysisRouter",
        router_names |-> << <<109, 105, 120, 82, 101, 112, 111, 114, 116>>,  \* 'mixReport'
                            <<115, 116, 114, 117, 99, 116, 117, 114, 101>>,  \* 'structure'
                            <<98, 101, 110, 99, 104, 109, 97, 114, 107>>,  \* 'benchmark'
                            <<116, 105, 109, 101, 108, 105, 110, 101>>,  \* 'timeline'
                            <<100, 97, 119, 69, 120, 112, 111, 114, 116>>,  \* 'dawExport'
                            <<109, 111, 111, 100, 69, 110, 101, 114, 103, 121>>,  \* 'moodEnergy'
                            <<105, 110, 115, 105, 103, 104, 116, 115>>,  \* 'insights'
                            <<109, 97, 116, 114, 105, 120>>,  \* 'matrix'
                            <<99, 115, 118, 69, 120, 112, 111, 114, 116>> >>],  \* 'csvExport'
       [name |-> "collaborationRouter",
        router_names |-> << <<99, 111, 108, 108, 97, 98, 111, 114, 97, 116, 105, 111, 110>>,  \* 'collaboration'
                            <<99, 111, 109, 109, 101, 110, 116>> >>],  \* 'comment'
       [name |-> "portfolioRouter",
        router_names |-> << <<112, 111, 114, 116, 102, 111, 108, 105, 111>>,  \* 'portfolio'
                            <<99, 111, 109, 112, 108, 101, 116, 105, 111, 110>>,  \* 'completion'
                            <<97, 98, 67, 111, 109, 112, 97, 114, 101>>,  \* 'abCompare'
                            <<116, 114, 97, 99, 107, 78, 111, 116, 101>> >>],  \* 'trackNote'
       [name |-> "playlistRouter",
        router_names |-> << <<112, 108, 97, 121, 108, 105, 115, 116>>,  \* 'playlist'
                            <<114, 101, 111, 114, 100, 101, 114>> >>],  \* 'reorder'
       [name |-> "subscriptionRouter",
        router_names |-> << <<115, 117, 98, 115, 99, 114, 105, 112, 116, 105, 111, 110>>,  \* 'subscription'
                            <<117, 115, 97, 103, 101>> >>],  \* 'usage'
       [name |-> "creativeRouter",
        router_names |-> << <<97, 114, 116, 119, 111, 114, 107>>,  \* 'artwork'
                            <<109, 97, 115, 116, 101, 114, 105, 110, 103>>,  \* 'mastering'
                            <<115, 101, 110, 116, 105, 109, 101, 110, 116, 72, 101, 97, 116, 109, 97, 112>> >>] >>  \* 'sentimentHeatmap'

----------------------------------------------------------------------------
(* Spec: main(), step by step. *)

\* Lines the input file is built from, without their line terminator.
FilePool ==
    { <<32, 32, 114, 101, 111, 114, 100, 101, 114, 58, 32, 114, 111, 117, 116, 101, 114, 40, 123>>,  \* '  reorder: router({'
      <<32, 32, 112, 108, 97, 121, 108, 105, 115, 116, 58, 32, 114, 111, 117, 116, 101, 114, 40, 123>>,  \* '  playlist: router({'
      <<32, 32, 117, 115, 97, 103, 101, 58, 32, 114, 111, 117, 116, 101, 114, 40, 123, 125, 41, 44>>,  \* '  usage: router({}),'
      <<32, 32, 125, 41, 44>>,  \* '  }),'
      <<32, 11, 160, 47, 47, 32, 110>>,  \* ' \x0b\xa0// n'
      <<32, 32, 99, 97, 102, 233, 58, 32, 114, 111, 117, 116, 101, 114, 40, 123>>,  \* '  caf\xe9: router({'
      <<>> }  \* ''

\* f.readlines() of a file with the lines body: every line keeps its "\n",
\* the last one only when the file ends with a newline.
ReadLines(body, eofNewline) ==
    [k \in 1..Len(body) |->
        IF k < Len(body) \/ eofNewline THEN body[k] \o <<Newline>> ELSE body[k]]

\* The bodies of the files read.  A file that does not end with a newline
\* ends with a line that is not empty.
FileBodies == UNION { [1..n -> FilePool] : n \in 0..MaxFileLines }

FileInputs ==
    { ReadLines(body, TRUE) : body \in FileBodies }
    \cup { ReadLines(body, FALSE) :
              body \in { b \in FileBodies : Len(b) > 0 /\ b[Len(b)] # <<>> } }

\* main has read the file.  The locals of extract_router_block are not used:
\* main calls it as a function.
Init ==
    /\ lines \in FileInputs
    /\ pc = "locate"
    /\ routers = EmptyDict
    /\ loc_i = 0
    /\ gi = 0
    /\ mi = 0
    /\ total_lines = 0
    /\ out = <<>>
    /\ start_idx = -1
    /\ i = -1
    /\ brace_count = 0
    /\ paren_count = 0
    /\ started = FALSE
    /\ end_idx = -1
    /\ comment_start = -1
    /\ block_lines = <<>>

\* One iteration of `for i, line in enumerate(lines)`.
LocateLine ==
    /\ pc = "locate"
    /\ loc_i < Len(lines)
    /\ LET m == PatternMatch(Line(lines, loc_i))
       IN  routers' = IF m # <<>> THEN DictSet(routers, m, loc_i) ELSE routers
    /\ loc_i' = loc_i + 1
    /\ UNCHANGED <<lines, pc, gi, mi, total_lines, out, extractVars>>

\* The locator loop is exhausted: go on to the first group.
LocateDone ==
    /\ pc = "locate"
    /\ loc_i >= Len(lines)
    /\ pc' = "group"
    /\ gi' = 1
    /\ UNCHANGED <<lines, routers, loc_i, mi, total_lines, out, extractVars>>

\* The head of one iteration of `for group_name, router_names in groups.items()`.
GroupHeader ==
    /\ pc = "group"
    /\ gi <= Len(groups)
    /\ out' = Append(out, [kind |-> "header", group |-> groups[gi].name])
    /\ total_lines' = 0
    /\ mi' = 1
    /\ pc' = "member"
    /\ UNCHANGED <<lines, routers, loc_i, gi, extractVars>>

\* A variant of MemberFound that prints the 0-based indices.
MemberFound_ZeroBased ==
    /\ pc = "member"
    /\ mi <= Len(groups[gi].router_names)
    /\ LET name == groups[gi].router_names[mi]
       IN  /\ name \in DOMAIN routers
           /\ LET r == extract_router_block(StrippedLines(lines), routers[name])
              IN  /\ total_lines' = total_lines + Len(r[1])
                  /\ out' = Append(out, [kind |-> "entry", name |-> name,
                                         first |-> r[2], last |-> r[3],
                                         count |-> Len(r[1])])
    /\ mi' = mi + 1
    /\ UNCHANGED <<lines, pc, routers, loc_i, gi, extractVars>>

\* One iteration of `for name in router_names`, name in routers.
MemberFound ==
    /\ pc = "member"
    /\ mi <= Len(groups[gi].router_names)
    /\ LET name == groups[gi].router_names[mi]
       IN  /\ name \in DOMAIN routers
           /\ LET r == extract_router_block(StrippedLines(lines), routers[name])
              IN  /\ total_lines' = total_lines + Len(r[1])
                  /\ out' = Append(out, [kind |-> "entry", name |-> name,
                                         first |-> r[2] + 1, last |-> r[3] + 1,
                                         count |-> Len(r[1])])
    /\ mi' = mi + 1
    /\ UNCHANGED <<lines, pc, routers, loc_i, gi, extractVars>>

\* A variant of MemberNotFound that leaves the member loop.
MemberNotFound_Break ==
    /\ pc = "member"
    /\ mi <= Len(groups[gi].router_names)
    /\ LET name == groups[gi].router_names[mi]
       IN  /\ name \notin DOMAIN routers
           /\ out' = Append(out, [kind |-> "notfound", name |-> name])
    /\ mi' = Len(groups[gi].router_names) + 1
    /\ UNCHANGED <<lines, pc, routers, loc_i, gi, total_lines, extractVars>>

\* One iteration of `for name in router_names`, name not in routers.
MemberNotFound ==
    /\ pc = "member"
    /\ mi <= Len(groups[gi].router_names)
    /\ LET name == groups[gi].router_names[mi]
       IN  /\ name \notin DOMAIN routers
           /\ out' = Append(out, [kind |-> "notfound", name |-> name])
    /\ mi' = mi + 1
    /\ UNCHANGED <<lines, pc, routers, loc_i, gi, total_lines, extractVars>>

\* The member loop is exhausted: print the total, go on to the next group.
GroupTotal ==
    /\ pc = "member"
    /\ mi > Len(groups[gi].router_names)
    /\ out' = Append(out, [kind |-> "total", group |-> groups[gi].name,
                           total |-> total_lines])
    /\ gi' = gi + 1
    /\ pc' = "group"
    /\ UNCHANGED <<lines, routers, loc_i, mi, total_lines, extractVars>>

\* The group loop is exhausted: main returns.
MainReturn ==
    /\ pc = "group"
    /\ gi > Len(groups)
    /\ pc' = "done"
    /\ UNCHANGED <<lines, routers, loc_i, gi, mi, total_lines, out, extractVars>>

Next ==
    \/ LocateLine
    \/ LocateDone
    \/ GroupHeader
    \/ MemberFound
    \/ MemberNotFound
    \/ GroupTotal
    \/ MainReturn

Spec == Init /\ [][Next]_vars

----------------------------------------------------------------------------
(* What the properties of main are stated with. *)

\* line is a definition of name: two spaces, the name, ": router({".
Declares(line, name) ==
    /\ Len(name) >= 1
    /\ \A k \in 1..Len(name) : IsWordChar(name[k])
    /\ StartsWith(line, <<Space, Space>> \o name \o PatternTail)

\* The lines among the first n of ls that are definitions of name.
DeclLines(ls, n, name) == { idx \in 0..(n - 1) : Declares(Line(ls, idx), name) }

Max(S) == CHOOSE x \in S : \A y \in S : x >= y

\* The names line may define: what stands between its first two characters
\* and one of its colons.
NameCandidates(line) ==
    { SubSeq(line, 3, k) : k \in { k \in 3..(Len(line) - 1) : line[k + 1] = Colon } }

\* The names the first n lines of ls define.
DeclaredNames(ls, n) ==
    { name \in UNION { NameCandidates(Line(ls, idx)) : idx \in 0..(n - 1) } :
        DeclLines(ls, n, name) # {} }

\* The number of lines the locator has been through.
Located == IF pc = "locate" THEN loc_i ELSE Len(lines)

\* The extent of the definition on line decl of ls, from the text: the last
\* line and the effective first line.
ExtentEnd(ls, decl) ==
    IF ClosedEnds(ls, decl) = {} THEN Len(ls) - 1 ELSE Min(ClosedEnds(ls, decl))

ExtentStart(ls, decl) ==
    Min({ s \in 0..decl : \A j \in s..(decl - 1) : CommentText(Line(ls, j)) })

\* What the report says of one member.
ExpectedEntry(name) ==
    IF DeclLines(lines, Len(lines), name) = {}
    THEN [kind |-> "notfound", name |-> name]
    ELSE LET decl == Max(DeclLines(lines, Len(lines), name))
             s    == ExtentStart(lines, decl)
             e    == ExtentEnd(lines, decl)
         IN  [kind |-> "entry", name |-> name, first |-> s + 1, last |-> e + 1,
              count |-> e - s + 1]

\* The sum of the counts of the entries among the first n records of recs.
RECURSIVE SumCounts(_, _)
SumCounts(recs, n) ==
    IF n = 0 THEN 0
    ELSE (IF recs[n].kind = "entry" THEN recs[n].count ELSE 0)
             + SumCounts(recs, n - 1)

\* What the report says of the members of group g, in order.
ExpectedEntries(g) ==
    [m \in 1..Len(groups[g].router_names) |->
        ExpectedEntry(groups[g].router_names[m])]

\* What the report says of group g: header, members in order, total.
ExpectedGroup(g) ==
    <<[kind |-> "header", group |-> groups[g].name]>>
        \o ExpectedEntries(g)
        \o <<[kind |-> "total", group |-> groups[g].name,
              total |-> SumCounts(ExpectedEntries(g), Len(ExpectedEntries(g)))]>>

\* The whole report: the groups 1..g in order.
RECURSIVE ExpectedReport(_)
ExpectedReport(g) ==
    IF g = 0 THEN <<>> ELSE ExpectedReport(g - 1) \o ExpectedGroup(g)

\* The number of records printed for the groups before group g.
RECURSIVE RecordsBefore(_)
RecordsBefore(g) ==
    IF g <= 1 THEN 0
    ELSE RecordsBefore(g - 1) + Len(groups[g - 1].router_names) + 2

\* Record k of the whole report, k in 1..RecordsBefore(Len(groups) + 1).
ExpectedRecord(k) ==
    LET g   == CHOOSE h \in 1..Len(groups) :
                   RecordsBefore(h) < k /\ k <= RecordsBefore(h + 1)
        pos == k - RecordsBefore(g)
    IN  IF pos = 1
        THEN [kind |-> "header", group |-> groups[g].name]
        ELSE IF pos <= Len(groups[g].router_names) + 1
        THEN ExpectedEntry(groups[g].router_names[pos - 1])
        ELSE [kind |-> "total", group |-> groups[g].name,
              total |-> SumCounts(ExpectedEntries(g), Len(ExpectedEntries(g)))]

\* The record printed for member m of group g, and for the total of group g.
MemberRecord(g, m) == out[RecordsBefore(g) + 1 + m]

TotalRecord(g) == out[RecordsBefore(g + 1)]

\* The sum of the counts of the found members among the first n of group g.
RECURSIVE FoundSum(_, _)
FoundSum(g, n) ==
    IF n = 0 THEN 0
    ELSE (IF groups[g].router_names[n] \in DOMAIN routers
          THEN MemberRecord(g, n).count ELSE 0) + FoundSum(g, n - 1)

----------------------------------------------------------------------------
(* Properties of main (Spec). *)

\* C1: for every line the locator resolved a name to, extract_router_block
\* returns comment_start and end_idx with
\* 0 <= comment_start <= declLine <= end_idx <= len(lines) - 1.
C1_ExtentBracketsDeclLine ==
    \A name \in DOMAIN routers :
        LET r == extract_router_block(StrippedLines(lines), routers[name])
        IN  /\ 0 <= r[2]
            /\ r[2] <= routers[name]
            /\ routers[name] <= r[3]
            /\ r[3] <= Len(lines) - 1

\* A definition on the only line of the file, its braces never closed, has
\* been reported.
C1_Witness ==
    /\ pc = "done"
    /\ Len(lines) = 1
    /\ DOMAIN routers # {}
    /\ ClosedEnds(lines, 0) = {}
    /\ \E k \in 1..Len(out) : out[k].kind = "entry" /\ out[k].last = 1

\* C7: the mapping holds name -> idx exactly when idx is the last line, among
\* those the locator has been through, that is a definition of name.
C7_LastOccurrenceWins ==
    /\ DOMAIN routers = DeclaredNames(lines, Located)
    /\ \A name \in DOMAIN routers :
           routers[name] = Max(DeclLines(lines, Located, name))

\* A name defined on two lines is resolved to the second.
C7_Witness ==
    /\ pc = "done"
    /\ \E name \in DOMAIN routers :
           /\ Cardinality(DeclLines(lines, Len(lines), name)) >= 2
           /\ routers[name] = Max(DeclLines(lines, Len(lines), name))
           /\ routers[name] > Min(DeclLines(lines, Len(lines), name))

\* C8: a member that is not in the mapping gives a NOT FOUND record and adds
\* nothing to the total; the members and groups after it are still reported,
\* and the total of a group is the sum of the counts of its found members.
C8_NotFoundDoesNotStop ==
    pc = "done" =>
        /\ Len(out) = RecordsBefore(Len(groups) + 1)
        /\ \A g \in 1..Len(groups) :
               /\ \A m \in 1..Len(groups[g].router_names) :
                      LET name == groups[g].router_names[m]
                      IN  IF name \in DOMAIN routers
                          THEN /\ MemberRecord(g, m).kind = "entry"
                               /\ MemberRecord(g, m).name = name
                          ELSE MemberRecord(g, m) =
                                   [kind |-> "notfound", name |-> name]
               /\ TotalRecord(g).kind = "total"
               /\ TotalRecord(g).total =
                      FoundSum(g, Len(groups[g].router_names))

\* In one group a member that is not found is followed by one that is, and the
\* total of the group is the count of the latter.
C8_Witness ==
    /\ pc = "done"
    /\ \E k \in 1..(Len(out) - 2) :
           /\ out[k].kind = "notfound"
           /\ out[k + 1].kind = "entry"
           /\ out[k + 2].kind = "total"
           /\ out[k + 2].total = out[k + 1].count
           /\ out[k + 2].total > 0

\* C9: the report has, for each group in the order of the table, a header, one
\* record for each member in the order of the table, then the total; a found
\* member is reported with the 1-based first and last line of its extent and
\* the number of lines between them, both included.  Records are printed one
\* after the other, each the next of that report, and when main returns the
\* report is whole.
C9_ReportInTableOrder ==
    /\ [](/\ Len(out) <= RecordsBefore(Len(groups) + 1)
          /\ Len(out) > 0 => out[Len(out)] = ExpectedRecord(Len(out))
          /\ pc = "done" => out = ExpectedReport(Len(groups)))
    /\ [][out' = out \/ (Len(out') = Len(out) + 1
                            /\ SubSeq(out', 1, Len(out)) = out)]_vars

\* A definition with a comment above it and its closing line below has been
\* reported as lines 1-3, 3 lines.
C9_Witness ==
    /\ pc = "done"
    /\ \E k \in 1..Len(out) :
           /\ out[k].kind = "entry"
           /\ out[k].first = 1
           /\ out[k].last = 3
           /\ out[k].count = 3
           /\ routers[out[k].name] = 1

====
